---- MODULE Spec2Model ----
(***************************************************************************)
(* The dataset viewer of viewer_colab/server.py (and the /files/ route of  *)
(* viewer/server.py): the background index build, the item store read by   *)
(* concurrent request handlers, the path sandbox and the derivative cache. *)
(*                                                                         *)
(* A file name is the sequence of its dot-separated components             *)
(* ("b.png.thumb.jpg" is <<"b","png","thumb","jpg">>), a path string is a  *)
(* record [abs, segs] of names, so that suffix tests, suffix appends and   *)
(* '..' normalisation are computed and never assumed.                      *)
(***************************************************************************)
EXTENDS Integers, Sequences, FiniteSets, TLC

\* ------------------------------------------------------------------ bounds
\* Longest manifest (in lines) the model enumerates.
MaxRows == 2
\* The progress cadence.  The source reports every 500 records; the model
\* scales the cadence down so that a bounded dataset crosses it.
ProgressEvery == 2

\* --------------------------------------------------------------- constants
THUMB_SUFFIX == <<"thumb", "jpg">>
DISPLAY_SUFFIX == <<"display", "jpg">>
IMAGE_EXTS == {"jpg", "jpeg", "png", "webp", "gif"}

\* ------------------------------------------------------------ path strings
DotDot == <<"..">>

Abs(segs) == [abs |-> TRUE, segs |-> segs]

Rel(segs) == [abs |-> FALSE, segs |-> segs]

\* str.lower() on the name components the model uses.
Lower(s) ==
    CASE s = "PNG" -> "png"
      [] s = "JPG" -> "jpg"
      [] s = "A" -> "a"
      [] s = "B" -> "b"
      [] OTHER -> s

\* PurePath.suffix: the last dot component, "" for a name without a dot.
SuffixOf(name) ==
    IF Len(name) >= 2 /\ ~(Len(name) = 2 /\ name[1] = "") /\ name[Len(name)] # ""
    THEN name[Len(name)] ELSE ""

\* PurePath.name of a path string.
NameOf(p) == IF p.segs = <<>> THEN <<>> ELSE p.segs[Len(p.segs)]

\* root / other: an absolute right operand replaces the left one.
Join(base, other) ==
    IF other.abs THEN other ELSE [abs |-> TRUE, segs |-> base.segs \o other.segs]

\* str + suffix on the last name of a path (rel.as_posix() + SUFFIX,
\* f"{path}.json").  An empty path is "." in pathlib.
AppendSuffix(p, suffix) ==
    IF p.segs = <<>>
    THEN [p EXCEPT !.segs = << <<"">> \o suffix >>]
    ELSE [p EXCEPT !.segs[Len(p.segs)] = @ \o suffix]

\* str.endswith(SUFFIX) on a request path.
EndsWith(p, suffix) ==
    /\ p.segs # <<>>
    /\ LET name == NameOf(p)
       IN  /\ Len(name) > Len(suffix)
           /\ SubSeq(name, Len(name) - Len(suffix) + 1, Len(name)) = suffix

\* rel_thumb[: -len(SUFFIX)]
StripSuffix(p, suffix) ==
    LET name == NameOf(p)
        stem == SubSeq(name, 1, Len(name) - Len(suffix))
    IN  IF stem = <<"">>
        THEN [p EXCEPT !.segs = SubSeq(p.segs, 1, Len(p.segs) - 1)]
        ELSE [p EXCEPT !.segs[Len(p.segs)] = stem]

IsPrefix(a, b) == Len(a) <= Len(b) /\ SubSeq(b, 1, Len(a)) = a

\* ------------------------------------------------------- the file system
\* The dataset root (args.root, already resolved in main).
Root == Abs(<< <<"d">>, <<"r">> >>)

ImgB == Root.segs \o << <<"b", "png">> >>
ImgA == Root.segs \o << <<"A", "JPG">> >>
SidecarB == Root.segs \o << <<"b", "png", "json">> >>
CaptionB == Root.segs \o << <<"b", "png", "caption", "txt">> >>
AlbumDir == Root.segs \o << <<"album", "png">> >>
LinkPng == Root.segs \o << <<"link", "png">> >>
Secret == << <<"d">>, <<"secret", "png">> >>
SecretTxt == << <<"d">>, <<"secret", "txt">> >>

\* Symbolic links: link location -> canonical target.
Symlinks == [p \in {LinkPng} |-> Secret]

\* Directories of the dataset (the cache directories are created on demand).
DatasetDirs == {<<>>, << <<"d">> >>, Root.segs, AlbumDir}

\* Regular files of the dataset that are always there (Secret and SecretTxt
\* lie outside the root).  The side-car of b.png is there or not, see sidecar.
StaticFiles == {ImgB, ImgA, CaptionB, Secret, SecretTxt}

\* Image files Pillow cannot decode (Image.open / load raises).
CorruptImages == {ImgA}

\* Text of the files the index build reads, as a sequence of tokens in which
\* " " stands for a run of one whitespace character.
FileText(loc) ==
    IF loc = CaptionB THEN <<" ", "a", " ", "cat", " ">>
    ELSE IF loc = SecretTxt THEN <<"key">>
    ELSE <<>>

\* What b.png.json holds when it parses to an object.
GoodMeta ==
    [tag_string_general |-> <<"cat", " ", " ", "outdoor">>,
     tag_string_artist |-> <<" ", "bob">>]

\* Path.resolve(): '..' pops a component, a symbolic link is followed, a
\* component that does not exist is kept as written.
RECURSIVE ResolveSegs(_, _)
ResolveSegs(acc, rest) ==
    IF rest = <<>> THEN acc
    ELSE LET seg == Head(rest)
             cand == Append(acc, seg)
             next == IF seg = DotDot
                     THEN (IF acc = <<>> THEN acc ELSE SubSeq(acc, 1, Len(acc) - 1))
                     ELSE IF cand \in DOMAIN Symlinks THEN Symlinks[cand]
                     ELSE cand
         IN  ResolveSegs(next, Tail(rest))

Resolve(p) == Abs(ResolveSegs(<<>>, p.segs))

\* safe_relative(root, target): the path of target below root, or None.
None == [ok |-> FALSE, rel |-> Rel(<<>>)]

SafeRelativeLoose(root, target) ==
    LET t == Resolve(target)
    IN  [ok |-> TRUE, rel |-> Rel(t.segs)]

\* The prefix test on the paths as written, nothing resolved.
SafeRelativeLexical(root, target) ==
    IF IsPrefix(root.segs, target.segs)
    THEN [ok |-> TRUE, rel |-> Rel(SubSeq(target.segs, Len(root.segs) + 1, Len(target.segs)))]
    ELSE None

safe_relative(root, target) ==
    LET r == Resolve(root)
        t == Resolve(target)
    IN  IF IsPrefix(r.segs, t.segs)
        THEN [ok |-> TRUE, rel |-> Rel(SubSeq(t.segs, Len(r.segs) + 1, Len(t.segs)))]
        ELSE None

\* make_thumb_path / make_display_path (the path is not normalised).
make_thumb_path(root, rel_path) ==
    Join(Join(root, Rel(<< <<"", "thumbs">> >>)), AppendSuffix(rel_path, THUMB_SUFFIX))

make_display_path(root, rel_path) ==
    Join(Join(root, Rel(<< <<"", "display">> >>)), AppendSuffix(rel_path, DISPLAY_SUFFIX))

\* to_file_url / to_thumb_url / to_display_url: the URL as (route, path).
to_file_url(rel_path) == [route |-> "files", path |-> rel_path]

to_thumb_url(rel_path) == [route |-> "thumbs", path |-> AppendSuffix(rel_path, THUMB_SUFFIX)]

to_display_url(rel_path) ==
    [route |-> "display", path |-> AppendSuffix(rel_path, DISPLAY_SUFFIX)]

\* The value handed back as it came, blanks and all.
SplitKeepsBlanks(value) == value

\* split_tags(value): the non-empty whitespace-separated tokens.
split_tags(value) == SelectSeq(value, LAMBDA t : t # " ")

\* str.strip(): leading and trailing whitespace removed.
RECURSIVE LStrip(_)
LStrip(text) ==
    IF text # <<>> /\ Head(text) = " " THEN LStrip(Tail(text)) ELSE text

RECURSIVE RStrip(_)
RStrip(text) ==
    IF text # <<>> /\ text[Len(text)] = " "
    THEN RStrip(SubSeq(text, 1, Len(text) - 1)) ELSE text

Strip(text) == RStrip(LStrip(text))

\* ------------------------------------------------------------------ state
VARIABLES
    PIL_AVAILABLE,  \* whether "from PIL import ..." succeeded
    prebuild,       \* args.prebuild
    index_path,     \* "None", or "manifest" when a usable manifest was found
    manifest,       \* the lines of the manifest file
    sidecar,        \* what b.png.json is: "absent", "good", "unparseable", "nondict"
    store,          \* the ItemStore: [items, ready, scanned]
    cache,          \* the derivative files on disk: location -> content state
    bg,             \* the background thread running build_items
    call,           \* each thread's activation of build_resized
    hs              \* the request handler threads

config == <<PIL_AVAILABLE, prebuild, index_path, manifest, sidecar>>

vars == <<PIL_AVAILABLE, prebuild, index_path, manifest, sidecar, store, cache, bg, call, hs>>

Handlers == {"h1", "h2"}

Threads == Handlers \cup {"bg"}

NoPath == Rel(<<>>)

\* ------------------------------------------------------------ the manifest
\* A manifest line: blank, not JSON, JSON that is no object, or an object
\* whose keys are the members of has.
Row(kind, has, image_path, caption_path, general) ==
    [kind |-> kind, has |-> has, image_path |-> image_path,
     caption_path |-> caption_path, general |-> general]

BlankRow == Row("blank", {}, NoPath, NoPath, <<>>)

GarbageRow == Row("garbage", {}, NoPath, NoPath, <<>>)

NonDictRow == Row("nondict", {}, NoPath, NoPath, <<>>)

\* image and caption both fine
GoodRow ==
    Row("dict", {"image_path", "caption_path", "general"},
        Rel(<< <<"b", "png">> >>), Rel(<< <<"b", "png", "caption", "txt">> >>), <<"cat">>)

\* no caption_path key
NoCaptionRow == Row("dict", {"image_path"}, Rel(<< <<"A", "JPG">> >>), NoPath, <<>>)

\* caption_path names a file that does not exist
MissingCaptionRow ==
    Row("dict", {"image_path", "caption_path"},
        Rel(<< <<"A", "JPG">> >>), Rel(<< <<"nocap", "txt">> >>), <<>>)

\* caption_path names something that exists and cannot be read as text
UnreadableCaptionRow ==
    Row("dict", {"image_path", "caption_path"},
        Rel(<< <<"A", "JPG">> >>), Rel(<< <<"album", "png">> >>), <<>>)

\* image_path leaves the root
EscapeRow ==
    Row("dict", {"image_path", "caption_path"},
        Rel(<< DotDot, <<"secret", "png">> >>), Rel(<< <<"nocap", "txt">> >>), <<>>)

\* image_path names a file that does not exist
MissingImageRow ==
    Row("dict", {"image_path", "caption_path"},
        Rel(<< <<"missing", "png">> >>), Rel(<< <<"nocap", "txt">> >>), <<>>)

\* image_path names a directory of the dataset
DirImageRow ==
    Row("dict", {"image_path", "caption_path"},
        Rel(<< <<"album", "png">> >>), Rel(<< <<"nocap", "txt">> >>), <<>>)

\* b.png once more, with no caption file and no tag
PlainRow ==
    Row("dict", {"image_path", "caption_path"},
        Rel(<< <<"b", "png">> >>), Rel(<< <<"nocap", "txt">> >>), <<>>)

\* caption_path leaves the root for a text file that exists
EscapeCaptionRow ==
    Row("dict", {"image_path", "caption_path"},
        Rel(<< <<"A", "JPG">> >>), Rel(<< DotDot, <<"secret", "txt">> >>), <<>>)

RowKinds ==
    {BlankRow, GarbageRow, NonDictRow, GoodRow, NoCaptionRow, MissingCaptionRow,
     UnreadableCaptionRow, EscapeRow, MissingImageRow, DirImageRow, PlainRow,
     EscapeCaptionRow}

Manifests == UNION {[1..n -> RowKinds] : n \in 0..MaxRows}

\* ------------------------------------------------- the disk, as it stands
RelB == Rel(<< <<"b", "png">> >>)

ThumbLoc(rel) == Resolve(make_thumb_path(Root, rel)).segs

DisplayLoc(rel) == Resolve(make_display_path(Root, rel)).segs

BelowRoot(loc) == Rel(SubSeq(loc, Len(Root.segs) + 1, Len(loc)))

\* Derivatives of b.png, and derivatives of those (a prebuild pass that finds
\* a cache file under the root takes it for a source).
Level1 == {ThumbLoc(RelB), DisplayLoc(RelB)}

Level2 == UNION {{ThumbLoc(BelowRoot(l)), DisplayLoc(BelowRoot(l))} : l \in Level1}

\* b.png spelled with '..' segments that leave the root and come back.
BackInside == Rel(<< DotDot, DotDot, <<"d">>, <<"r">>, <<"b", "png">> >>)

\* Where the thumbnail path of that spelling leads.
StrayLocs == {ThumbLoc(BackInside)}

CacheLocs == Level1 \cup Level2 \cup StrayLocs

CacheOrder ==
    <<ThumbLoc(RelB), DisplayLoc(RelB),
      ThumbLoc(BelowRoot(ThumbLoc(RelB))), DisplayLoc(BelowRoot(ThumbLoc(RelB))),
      ThumbLoc(BelowRoot(DisplayLoc(RelB))), DisplayLoc(BelowRoot(DisplayLoc(RelB)))>>

\* "absent", "partial" (opened for writing, bytes missing) or "complete".
CacheState(loc) == IF loc \in DOMAIN cache THEN cache[loc] ELSE "absent"

IsFileLoc(loc) ==
    \/ loc \in StaticFiles
    \/ loc = SidecarB /\ sidecar # "absent"
    \/ CacheState(loc) # "absent"

IsDirLoc(loc) == loc \in DatasetDirs

\* Path.exists(): follows symbolic links.
Exists(p) == LET loc == Resolve(p).segs IN IsFileLoc(loc) \/ IsDirLoc(loc)

\* root.rglob("*"): every entry below the root, directories and symbolic
\* links included, in the order the directory listing gives them; the
\* listing is the one of the moment the enumeration starts.
DatasetListing ==
    <<AlbumDir, ImgA, CaptionB, LinkPng, ImgB>>
        \o (IF sidecar # "absent" THEN <<SidecarB>> ELSE <<>>)

Listing == DatasetListing \o SelectSeq(CacheOrder, LAMBDA l : CacheState(l) # "absent")

\* ------------------------------------------------------------------ items
EmptyTags == [artist |-> <<>>, copyright |-> <<>>, character |-> <<>>, general |-> <<>>]

Item(name, rel, caption, tags) ==
    [name |-> name, image_url |-> to_file_url(rel), thumb_url |-> to_thumb_url(rel),
     display_url |-> to_display_url(rel), caption |-> caption, tags |-> tags]

Skip == [kind |-> "skip", item |-> Item(<<>>, NoPath, <<>>, EmptyTags)]

Crash == [kind |-> "crash", item |-> Item(<<>>, NoPath, <<>>, EmptyTags)]

Emit(item) == [kind |-> "item", item |-> item]

\* caption_path.exists() and caption_path.read_text().strip(): "" when the
\* path does not exist, an exception when it exists and is no readable file.
ReadCaption(caption_path) ==
    LET loc == Resolve(caption_path).segs
    IN  IF ~Exists(caption_path) THEN [ok |-> TRUE, text |-> <<>>]
        ELSE IF IsFileLoc(loc) THEN [ok |-> TRUE, text |-> Strip(FileText(loc))]
        ELSE [ok |-> FALSE, text |-> <<>>]

\* dict.get(key, default) on a manifest row
RowGet(row, key, default) == IF key \in row.has THEN row[key] ELSE default

\* One pass of the manifest loop body on a line.
ManifestOutcome(row) ==
    IF row.kind \in {"blank", "garbage"} THEN Skip
    ELSE IF row.kind = "nondict" THEN Crash
    ELSE LET img_path == Join(Root, RowGet(row, "image_path", Rel(<<>>)))
             rel == safe_relative(Root, img_path)
             caption_path == Join(Root, RowGet(row, "caption_path", Rel(<<>>)))
             caption == ReadCaption(caption_path)
             tags == [EmptyTags EXCEPT !.general = RowGet(row, "general", <<>>)]
         IN  IF ~rel.ok \/ ~Exists(img_path) THEN Skip
             ELSE IF ~caption.ok THEN Crash
             ELSE Emit(Item(NameOf(img_path), rel.rel, caption.text, tags))

\* dict.get(key) on the parsed side-car, None read as "" by split_tags
MetaGet(meta, key) == IF key \in DOMAIN meta THEN meta[key] ELSE <<>>

\* The tags of a side-car file: json.loads and the four split_tags.
SidecarTags(json_path) ==
    IF ~Exists(json_path) \/ Resolve(json_path).segs # SidecarB
    THEN [ok |-> TRUE, tags |-> EmptyTags]
    ELSE IF sidecar = "unparseable" THEN [ok |-> TRUE, tags |-> EmptyTags]
    ELSE IF sidecar = "nondict" THEN [ok |-> FALSE, tags |-> EmptyTags]
    ELSE [ok |-> TRUE,
          tags |-> [artist |-> split_tags(MetaGet(GoodMeta, "tag_string_artist")),
                    copyright |-> split_tags(MetaGet(GoodMeta, "tag_string_copyright")),
                    character |-> split_tags(MetaGet(GoodMeta, "tag_string_character")),
                    general |-> split_tags(MetaGet(GoodMeta, "tag_string_general"))]]

\* One pass of the scan loop body on a directory entry.
ScanOutcome(loc) ==
    LET path == Abs(loc)
        rel == safe_relative(Root, path)
        caption == ReadCaption(AppendSuffix(path, <<"caption", "txt">>))
        meta == SidecarTags(AppendSuffix(path, <<"json">>))
    IN  IF Lower(SuffixOf(NameOf(path))) \notin IMAGE_EXTS THEN Skip
        ELSE IF ~rel.ok THEN Skip
        ELSE IF ~caption.ok \/ ~meta.ok THEN Crash
        ELSE Emit(Item(NameOf(path), rel.rel, caption.text, meta.tags))

\* ------------------------------------------------------------------- sort
\* The order of the lower-cased strings the names are made of.
StrOrder ==
    <<"", "..", "a", "album", "b", "caption", "d", "display", "jpg", "json", "key", "link",
      "missing", "nocap", "png", "r", "secret", "thumb", "thumbs", "txt">>

StrRank(s) == CHOOSE i \in 1..Len(StrOrder) : StrOrder[i] = s

\* item["name"].lower()
NameKey(name) == [i \in 1..Len(name) |-> Lower(name[i])]

\* k1 <= k2 as Python compares the two strings
RECURSIVE KeyLeq(_, _)
KeyLeq(k1, k2) ==
    IF k1 = <<>> THEN TRUE
    ELSE IF k2 = <<>> THEN FALSE
    ELSE IF Head(k1) = Head(k2) THEN KeyLeq(Tail(k1), Tail(k2))
    ELSE StrRank(Head(k1)) < StrRank(Head(k2))

\* list.sort(key=...) is stable: an item goes after the items that are not
\* greater than it.
RECURSIVE InsertSorted(_, _)
InsertSorted(sorted, x) ==
    IF sorted = <<>> THEN <<x>>
    ELSE IF KeyLeq(NameKey(Head(sorted).name), NameKey(x.name))
         THEN <<Head(sorted)>> \o InsertSorted(Tail(sorted), x)
         ELSE <<x>> \o sorted

\* The list left as the loop built it.
Unsorted(items) == items

RECURSIVE SortByName(_)
SortByName(items) ==
    IF items = <<>> THEN <<>>
    ELSE InsertSorted(SortByName(SubSeq(items, 1, Len(items) - 1)), items[Len(items)])

\* ---------------------------------------------------------- build_resized
NoCall == [pc |-> "none", src |-> NoPath, target |-> NoPath, result |-> FALSE]

\* build_resized(source_path, target_path, ...) entered
Enter(src, target) == [pc |-> "check", src |-> src, target |-> target, result |-> FALSE]

Return(frame, result) == [frame EXCEPT !.pc = "ret", !.result = result]

\* Image.open .. image.thumbnail succeed: the source is an intact image file.
Decodable(src) ==
    LET loc == Resolve(src).segs
    IN  \/ loc \in {ImgB, ImgA, Secret} \ CorruptImages
        \/ CacheState(loc) = "complete"

\* Threads other than t that have the file at loc open for writing.
OtherWriters(t, loc) ==
    {u \in Threads \ {t} : call[u].pc = "save" /\ Resolve(call[u].target).segs = loc}

\* What the first two tests of build_resized decide, in the order
\* "the file is there" then "Pillow is missing".
BuildCheckNoHit(frame) ==
    IF ~PIL_AVAILABLE THEN Return(frame, FALSE)
    ELSE [frame EXCEPT !.pc = "encode"]

BuildCheck(frame) ==
    IF Exists(frame.target) THEN Return(frame, FALSE)
    ELSE IF ~PIL_AVAILABLE THEN Return(frame, FALSE)
    ELSE [frame EXCEPT !.pc = "encode"]

\* lines 143-146: cache hit, or no Pillow, or go on to encode
BRCheck(t) ==
    /\ call[t].pc = "check"
    /\ call' = [call EXCEPT ![t] = BuildCheck(call[t])]
    /\ UNCHANGED <<config, store, cache, bg, hs>>

\* lines 149-165, up to the point where image.save has opened the target:
\* the source is decoded, the parent directories are made and the target
\* file exists, empty.  A source that does not decode raises (line 167).
BREncode(t) ==
    /\ call[t].pc = "encode"
    /\ IF Decodable(call[t].src)
       THEN /\ Resolve(call[t].target).segs \in DOMAIN cache
            /\ cache' = [cache EXCEPT ![Resolve(call[t].target).segs] = "partial"]
            /\ call' = [call EXCEPT ![t].pc = "save"]
       ELSE /\ call' = [call EXCEPT ![t] = Return(call[t], FALSE)]
            /\ UNCHANGED cache
    /\ UNCHANGED <<config, store, bg, hs>>

\* lines 165-166: image.save has written its last byte.  The bytes on disk
\* are the whole file unless another thread that truncated the same file is
\* still writing it; what the file then holds depends on how the two
\* writers' chunks fell.
BRSave(t) ==
    /\ call[t].pc = "save"
    /\ LET loc == Resolve(call[t].target).segs
       IN  \E content \in (IF OtherWriters(t, loc) = {} THEN {"complete"}
                           ELSE {"partial", "complete"}) :
               cache' = [cache EXCEPT ![loc] = content]
    /\ call' = [call EXCEPT ![t] = Return(call[t], TRUE)]
    /\ UNCHANGED <<config, store, bg, hs>>

\* ------------------------------------------------ the background thread
BgInit ==
    [pc |-> "start", listing |-> <<>>, pos |-> 0, idx |-> 0, items |-> <<>>,
     total |-> 0, built |-> 0]

\* progress(scanned): store.scanned = scanned
progress(st, scanned) == [st EXCEPT !.scanned = scanned]

\* "if progress and idx % 500 == 0: progress(idx)"
Report(st, idx) == IF idx % ProgressEvery = 0 THEN progress(st, idx) ELSE st

\* build_items going straight to load_items, asked for a prebuild or not.
BgStartNoPrebuild ==
    /\ bg.pc = "start"
    /\ bg' = [bg EXCEPT !.pc = "load"]
    /\ UNCHANGED <<config, store, cache, call, hs>>

\* build_items, line 333; prebuild_cache, lines 172-176
BgStart ==
    /\ bg.pc = "start"
    /\ bg' = IF prebuild /\ PIL_AVAILABLE
             THEN [bg EXCEPT !.pc = "prebuild", !.listing = Listing, !.pos = 0]
             ELSE [bg EXCEPT !.pc = "load"]
    /\ UNCHANGED <<config, store, cache, call, hs>>

\* prebuild_cache, lines 177-186: the next directory entry, up to the call
\* of build_resized for its thumbnail; line 192 when there is none left
PrebuildNext ==
    /\ bg.pc = "prebuild"
    /\ IF bg.pos = Len(bg.listing)
       THEN /\ bg' = [bg EXCEPT !.pc = "load"]
            /\ UNCHANGED call
       ELSE LET path == Abs(bg.listing[bg.pos + 1])
                rel == safe_relative(Root, path)
            IN  IF Lower(SuffixOf(NameOf(path))) \notin IMAGE_EXTS \/ ~rel.ok
                THEN /\ bg' = [bg EXCEPT !.pos = @ + 1]
                     /\ UNCHANGED call
                ELSE /\ bg' = [bg EXCEPT !.pc = "prebuild_thumb", !.total = @ + 1]
                     /\ call' = [call EXCEPT
                                   !["bg"] = Enter(path, make_thumb_path(Root, rel.rel))]
    /\ UNCHANGED <<config, store, cache, hs>>

\* lines 186-188: the thumbnail call has returned, the display call starts
PrebuildThumbDone ==
    /\ bg.pc = "prebuild_thumb"
    /\ call["bg"].pc = "ret"
    /\ LET path == Abs(bg.listing[bg.pos + 1])
           rel == safe_relative(Root, path)
       IN  /\ bg' = [bg EXCEPT !.pc = "prebuild_display",
                               !.built = IF call["bg"].result THEN @ + 1 ELSE @]
           /\ call' = [call EXCEPT
                         !["bg"] = Enter(path, make_display_path(Root, rel.rel))]
    /\ UNCHANGED <<config, store, cache, hs>>

\* The display call counted as a file created whatever it returned.
PrebuildDisplayDoneCountsAll ==
    /\ bg.pc = "prebuild_display"
    /\ call["bg"].pc = "ret"
    /\ bg' = [bg EXCEPT !.pc = "prebuild", !.pos = @ + 1, !.built = @ + 1]
    /\ call' = [call EXCEPT !["bg"] = NoCall]
    /\ UNCHANGED <<config, store, cache, hs>>

\* lines 188-191: the display call has returned
PrebuildDisplayDone ==
    /\ bg.pc = "prebuild_display"
    /\ call["bg"].pc = "ret"
    /\ bg' = [bg EXCEPT !.pc = "prebuild", !.pos = @ + 1,
                        !.built = IF call["bg"].result THEN @ + 1 ELSE @]
    /\ call' = [call EXCEPT !["bg"] = NoCall]
    /\ UNCHANGED <<config, store, cache, hs>>

\* load_items, lines 61-62 and 105: the mode is chosen, the scan takes its
\* directory listing
LoadBegin ==
    /\ bg.pc = "load"
    /\ bg' = IF index_path = "manifest"
             THEN [bg EXCEPT !.pc = "manifest", !.idx = 0, !.items = <<>>]
             ELSE [bg EXCEPT !.pc = "scan", !.idx = 0, !.items = <<>>,
                             !.listing = Listing]
    /\ UNCHANGED <<config, store, cache, call, hs>>

\* What a loop body does with its outcome: an exception nobody catches ends
\* the thread, a skipped record goes on without a progress report.
LoopStep(outcome) ==
    IF outcome.kind = "crash"
    THEN /\ bg' = [bg EXCEPT !.pc = "crashed", !.idx = @ + 1]
         /\ UNCHANGED store
    ELSE IF outcome.kind = "skip"
    THEN /\ bg' = [bg EXCEPT !.idx = @ + 1]
         /\ UNCHANGED store
    ELSE /\ bg' = [bg EXCEPT !.idx = @ + 1, !.items = Append(@, outcome.item)]
         /\ store' = Report(store, bg.idx + 1)

\* load_items, lines 64-101: one line of the manifest
ManifestLine ==
    /\ bg.pc = "manifest"
    /\ bg.idx < Len(manifest)
    /\ LoopStep(ManifestOutcome(manifest[bg.idx + 1]))
    /\ UNCHANGED <<config, cache, call, hs>>

\* load_items, lines 105-137: one directory entry
ScanEntry ==
    /\ bg.pc = "scan"
    /\ bg.idx < Len(bg.listing)
    /\ LoopStep(ScanOutcome(bg.listing[bg.idx + 1]))
    /\ UNCHANGED <<config, cache, call, hs>>

\* load_items, lines 102-103 and 138-139: sort and return
LoadReturn ==
    /\ \/ bg.pc = "manifest" /\ bg.idx = Len(manifest)
       \/ bg.pc = "scan" /\ bg.idx = Len(bg.listing)
    /\ bg' = [bg EXCEPT !.pc = "publish", !.items = SortByName(@)]
    /\ UNCHANGED <<config, store, cache, call, hs>>

\* The two stores of build_items, lines 336 and 337, in the order written.
PublishReadyFirst(st, items) == [st EXCEPT !.ready = TRUE]

PublishFirst(st, items) == [st EXCEPT !.items = items]

PublishSecond(st, items) == [st EXCEPT !.ready = TRUE]

\* build_items, line 336: store.items = items
PublishItems ==
    /\ bg.pc = "publish"
    /\ store' = PublishFirst(store, bg.items)
    /\ bg' = [bg EXCEPT !.pc = "set_ready"]
    /\ UNCHANGED <<config, cache, call, hs>>

\* build_items, line 337: store.ready = True
SetReady ==
    /\ bg.pc = "set_ready"
    /\ store' = PublishSecond(store, bg.items)
    /\ bg' = [bg EXCEPT !.pc = "done"]
    /\ UNCHANGED <<config, cache, call, hs>>

\* ------------------------------------------------------ request handlers
NoResp ==
    [kind |-> "none", status |-> 0, ready |-> FALSE, scanned |-> 0, items |-> <<>>,
     file |-> <<>>, content |-> "none", cache_seconds |-> 0]

\* send_error(status)
ErrorResp(status) == [NoResp EXCEPT !.kind = "error", !.status = status]

\* What the bytes at a location are: a source file as it is, or a
\* derivative in the state the disk has it in.
ContentAt(loc) == IF loc \in DOMAIN cache THEN cache[loc] ELSE "raw"

\* send_file(path, cache_seconds): 404 when the path does not exist, else
\* 200 and the bytes of the file the path leads to
send_file(path, cache_seconds) ==
    IF ~Exists(path) THEN ErrorResp(404)
    ELSE [NoResp EXCEPT !.kind = "file", !.status = 200, !.file = Resolve(path).segs,
                        !.content = ContentAt(Resolve(path).segs),
                        !.cache_seconds = cache_seconds]

HandlerInit ==
    [pc |-> "idle", req |-> [server |-> "colab", route |-> "none", path |-> NoPath],
     ready |-> FALSE, scanned |-> 0, lo |-> 0, resp |-> NoResp]

Req(server, route, path) == [server |-> server, route |-> route, path |-> path]

\* The request paths clients send, after the route prefix and unquote().
SourceSpellings ==
    {Rel(<< <<"b", "png">> >>),                  \* an image of the dataset
     Rel(<< <<"A", "JPG">> >>),                  \* an image Pillow cannot decode
     Rel(<< <<"missing", "png">> >>),            \* no such file
     Rel(<< DotDot, <<"secret", "png">> >>),     \* leaves the root by '..'
     Rel(<< <<"link", "png">> >>),               \* a symbolic link out of the root
     Abs(Secret)}                                \* an absolute path out of the root

Requests ==
    {Req("colab", "api", NoPath)}
    \cup {Req("colab", "thumbs", AppendSuffix(p, THUMB_SUFFIX)) : p \in SourceSpellings}
    \cup {Req("colab", "display", AppendSuffix(p, DISPLAY_SUFFIX)) : p \in SourceSpellings}
    \cup {Req("colab", "thumbs", AppendSuffix(RelB, DISPLAY_SUFFIX)),
          Req("colab", "display", AppendSuffix(RelB, THUMB_SUFFIX))}
    \cup {Req("colab", "thumbs", AppendSuffix(BackInside, THUMB_SUFFIX))}
    \cup {Req(s, "files", p) : s \in {"colab", "viewer"}, p \in SourceSpellings}

\* do_GET, lines 218-219: /api/items, store.ready is read
ApiStart(h, r) ==
    /\ hs[h].pc = "idle"
    /\ r.route = "api"
    /\ hs' = [hs EXCEPT ![h] = [HandlerInit EXCEPT !.pc = "api_scanned", !.req = r,
                                                   !.ready = store.ready,
                                                   !.lo = store.scanned]]
    /\ UNCHANGED <<config, store, cache, bg, call>>

\* A handler that clears the counter it reads.
ApiReadScannedResets(h) ==
    /\ hs[h].pc = "api_scanned"
    /\ hs' = [hs EXCEPT ![h].pc = "api_items", ![h].scanned = store.scanned]
    /\ store' = [store EXCEPT !.scanned = 0]
    /\ UNCHANGED <<config, cache, bg, call>>

\* line 223: store.scanned is read
ApiReadScanned(h) ==
    /\ hs[h].pc = "api_scanned"
    /\ hs' = [hs EXCEPT ![h].pc = "api_items", ![h].scanned = store.scanned]
    /\ UNCHANGED <<config, store, cache, bg, call>>

\* line 224: "items": self.store.items if ready else []
PayloadItemsAlways(ready, st) == st.items

PayloadItems(ready, st) == IF ready THEN st.items ELSE <<>>

\* lines 224-232: the items are read and the response is written
ApiRespond(h) ==
    /\ hs[h].pc = "api_items"
    /\ hs' = [hs EXCEPT ![h].pc = "done",
                        ![h].resp = [NoResp EXCEPT !.kind = "api", !.status = 200,
                                                   !.ready = hs[h].ready,
                                                   !.scanned = hs[h].scanned,
                                                   !.items = PayloadItems(hs[h].ready, store)]]
    /\ UNCHANGED <<config, store, cache, bg, call>>

Suffix(route) == IF route = "thumbs" THEN THUMB_SUFFIX ELSE DISPLAY_SUFFIX

CachePath(route, rel_src) ==
    IF route = "thumbs" THEN make_thumb_path(Root, rel_src)
    ELSE make_display_path(Root, rel_src)

\* cache_seconds of a derivative that is served: 86400 for thumbs, 3600 for display
DerivativeMaxAge(route) == IF route = "thumbs" THEN 86400 ELSE 3600

\* do_GET, lines 234-249 and 256-271: /thumbs/ and /display/ up to the call
\* of build_resized
DerivativeStart(h, r) ==
    /\ hs[h].pc = "idle"
    /\ r.route \in {"thumbs", "display"}
    /\ LET rel_src == StripSuffix(r.path, Suffix(r.route))
           src_path == Resolve(Join(Root, rel_src))
           answer(resp) == /\ hs' = [hs EXCEPT ![h] = [HandlerInit EXCEPT !.pc = "done",
                                                                         !.req = r,
                                                                         !.resp = resp]]
                           /\ UNCHANGED call
       IN  IF ~EndsWith(r.path, Suffix(r.route)) THEN answer(ErrorResp(404))
           ELSE IF ~safe_relative(Root, src_path).ok THEN answer(ErrorResp(403))
           ELSE IF ~Exists(src_path) THEN answer(ErrorResp(404))
           ELSE /\ hs' = [hs EXCEPT ![h] = [HandlerInit EXCEPT !.pc = "build", !.req = r]]
                /\ call' = [call EXCEPT
                              ![h] = Enter(src_path, CachePath(r.route, rel_src))]
    /\ UNCHANGED <<config, store, cache, bg>>

\* What is sent once build_resized is back, lines 250-254 and 272-276.
ServeNoFallback(route, frame) ==
    IF Exists(frame.target) THEN send_file(frame.target, DerivativeMaxAge(route))
    ELSE ErrorResp(404)

Serve(route, frame) ==
    IF Exists(frame.target) THEN send_file(frame.target, DerivativeMaxAge(route))
    ELSE send_file(frame.src, 3600)

DerivativeRespond(h) ==
    /\ hs[h].pc = "build"
    /\ call[h].pc = "ret"
    /\ hs' = [hs EXCEPT ![h].pc = "done", ![h].resp = Serve(hs[h].req.route, call[h])]
    /\ call' = [call EXCEPT ![h] = NoCall]
    /\ UNCHANGED <<config, store, cache, bg>>

\* do_GET of viewer_colab, lines 278-285: /files/
FilesColab(h, r) ==
    /\ hs[h].pc = "idle"
    /\ r.route = "files" /\ r.server = "colab"
    /\ LET target == Resolve(Join(Root, r.path))
       IN  hs' = [hs EXCEPT ![h] = [HandlerInit EXCEPT
                     !.pc = "done", !.req = r,
                     !.resp = IF ~safe_relative(Root, target).ok THEN ErrorResp(403)
                              ELSE send_file(target, 3600)]]
    /\ UNCHANGED <<config, store, cache, bg, call>>

\* do_GET of viewer, lines 123-139: /files/
FilesViewer(h, r) ==
    /\ hs[h].pc = "idle"
    /\ r.route = "files" /\ r.server = "viewer"
    /\ LET target == Resolve(Join(Root, r.path))
       IN  hs' = [hs EXCEPT ![h] = [HandlerInit EXCEPT
                     !.pc = "done", !.req = r,
                     !.resp = IF ~safe_relative(Root, target).ok THEN ErrorResp(403)
                              ELSE IF ~Exists(target) THEN ErrorResp(404)
                              ELSE send_file(target, 0)]]
    /\ UNCHANGED <<config, store, cache, bg, call>>

\* The response is on the wire: the handler's thread ends, and the server
\* starts another one for the next request.
Finish(h) ==
    /\ hs[h].pc = "done"
    /\ hs' = [hs EXCEPT ![h] = HandlerInit]
    /\ UNCHANGED <<config, store, cache, bg, call>>

\* --------------------------------------------------------- specifications
\* Two specifications share the actions above.  SpecIndex is the index
\* build (prebuild included) with clients that poll /api/items; SpecServe
\* is the file and derivative routes with the background thread in its
\* prebuild pass.  The two halves meet in one place only, the directory
\* listing of the scan, which SpecIndex feeds from the cache files that a
\* prebuild pass or an earlier run of the server left.
NoCache == [l \in CacheLocs |-> "absent"]

\* An earlier run of the server has left the thumbnail of b.png.
OldThumb == [NoCache EXCEPT ![ThumbLoc(RelB)] = "complete"]

InitCommon ==
    /\ store = [items |-> <<>>, ready |-> FALSE, scanned |-> 0]
    /\ bg = BgInit
    /\ call = [t \in Threads |-> NoCall]
    /\ hs = [h \in Handlers |-> HandlerInit]

\* The configurations of the index build.  A scan is combined with every
\* side-car, with and without Pillow, prebuild and an old cache file.  The
\* prebuild pass ends before the first manifest line is read and shares
\* nothing with the manifest loop: it is combined with the manifests of at
\* most one line.
InitIndex ==
    /\ index_path \in {"None", "manifest"}
    /\ manifest \in (IF index_path = "manifest" THEN Manifests ELSE {<<>>})
    /\ sidecar \in (IF index_path = "None"
                    THEN {"absent", "good", "unparseable", "nondict"} ELSE {"absent"})
    /\ PIL_AVAILABLE \in (IF index_path = "None" THEN BOOLEAN ELSE {TRUE})
    /\ prebuild \in (IF index_path = "None" \/ Len(manifest) <= 1 THEN BOOLEAN ELSE {FALSE})
    /\ cache \in (IF index_path = "None" THEN {NoCache, OldThumb} ELSE {NoCache})
    /\ InitCommon

BgIndexStep ==
    \/ BgStart
    \/ PrebuildNext
    \/ PrebuildThumbDone
    \/ PrebuildDisplayDone
    \/ BRCheck("bg")
    \/ BREncode("bg")
    \/ BRSave("bg")
    \/ LoadBegin
    \/ ManifestLine
    \/ ScanEntry
    \/ LoadReturn
    \/ PublishItems
    \/ SetReady

NextIndex ==
    \/ BgIndexStep
    \/ \E h \in Handlers, r \in Requests : ApiStart(h, r)
    \/ \E h \in Handlers : ApiReadScanned(h)
    \/ \E h \in Handlers : ApiRespond(h)
    \/ \E h \in Handlers : Finish(h)

SpecIndex == InitIndex /\ [][NextIndex]_vars

InitServe ==
    /\ PIL_AVAILABLE \in BOOLEAN
    /\ prebuild \in BOOLEAN
    /\ index_path = "None"
    /\ manifest = <<>>
    /\ sidecar = "good"
    /\ cache \in {NoCache, OldThumb}
    /\ InitCommon

\* The clients of SpecServe send their requests one at a time while a
\* prebuild pass was asked for, and up to one per handler otherwise.
MayStart(h) == prebuild /\ PIL_AVAILABLE => \A g \in Handlers : hs[g].pc = "idle"

NextServe ==
    \/ BgStart
    \/ PrebuildNext
    \/ PrebuildThumbDone
    \/ PrebuildDisplayDone
    \/ \E t \in Threads : BRCheck(t)
    \/ \E t \in Threads : BREncode(t)
    \/ \E t \in Threads : BRSave(t)
    \/ \E h \in Handlers, r \in Requests : MayStart(h) /\ DerivativeStart(h, r)
    \/ \E h \in Handlers : DerivativeRespond(h)
    \/ \E h \in Handlers, r \in Requests : MayStart(h) /\ FilesColab(h, r)
    \/ \E h \in Handlers, r \in Requests : MayStart(h) /\ FilesViewer(h, r)
    \/ \E h \in Handlers : Finish(h)

SpecServe == InitServe /\ [][NextServe]_vars

\* =============================================================== properties
\* Every file build_resized writes is one of the cache locations the model
\* keeps a state for (a check of the model, not of the program).
TargetsKnown ==
    \A t \in Threads :
        call[t].pc \in {"encode", "save"} /\ Decodable(call[t].src)
            => Resolve(call[t].target).segs \in CacheLocs

\* The items of the records of a loop, in the order the loop meets them.
RECURSIVE Collect(_)
Collect(outcomes) ==
    IF outcomes = <<>> THEN <<>>
    ELSE LET rest == Collect(SubSeq(outcomes, 1, Len(outcomes) - 1))
             last == outcomes[Len(outcomes)]
         IN  IF last.kind = "item" THEN Append(rest, last.item) ELSE rest

\* The index of the whole input: every record that yields an item, sorted.
CompleteIndex ==
    IF index_path = "manifest"
    THEN SortByName(Collect([i \in 1..Len(manifest) |-> ManifestOutcome(manifest[i])]))
    ELSE SortByName(Collect([i \in 1..Len(bg.listing) |-> ScanOutcome(bg.listing[i])]))

IsSortedByName(items) ==
    \A i \in 1..(Len(items) - 1) : KeyLeq(NameKey(items[i].name), NameKey(items[i + 1].name))

ApiResponses == {hs[h].resp : h \in {g \in Handlers : hs[g].resp.kind = "api"}}

\* C1: whatever the interleaving of the build thread with the /api/items
\* handlers, a response with ready = true carries the complete, sorted index
\* of the input, and a response with ready = false carries no item.
C1_ReadyMeansCompleteIndex ==
    \A resp \in ApiResponses :
        IF resp.ready
        THEN resp.items = CompleteIndex /\ IsSortedByName(resp.items)
        ELSE resp.items = <<>>

\* C1 witness: one handler has answered ready = true with an index of two
\* items or more while another has answered ready = false.
C1_Witness ==
    \E h, g \in Handlers :
        /\ hs[h].resp.kind = "api" /\ hs[h].resp.ready /\ Len(hs[h].resp.items) >= 2
        /\ hs[g].resp.kind = "api" /\ ~hs[g].resp.ready

ApiReq == Req("colab", "api", NoPath)

\* C2: a handler of /api/items never waits for the background thread
\* (whatever that thread is doing, dead included, the handler's next step
\* is enabled), and a response with ready = false carries no item and a
\* value that store.scanned had while the request was handled.
C2_NotReadyAnswersAtOnce ==
    /\ \A h \in Handlers :
        /\ hs[h].pc = "idle" => ENABLED ApiStart(h, ApiReq)
        /\ hs[h].pc = "api_scanned" => ENABLED ApiReadScanned(h)
        /\ hs[h].pc = "api_items" => ENABLED ApiRespond(h)
    /\ \A h \in Handlers :
        hs[h].resp.kind = "api" /\ ~hs[h].resp.ready
            => /\ hs[h].resp.items = <<>>
               /\ hs[h].resp.scanned \in hs[h].lo..store.scanned

\* C2 witness: the build thread has died after a progress report, and a
\* handler has answered ready = false with that count and no item.
C2_Witness ==
    \E h \in Handlers :
        /\ bg.pc = "crashed"
        /\ hs[h].resp.kind = "api" /\ ~hs[h].resp.ready
        /\ hs[h].resp.scanned > 0 /\ hs[h].resp.items = <<>>

\* The source path a file or derivative request leads to, canonical.
RecoveredSource(r) ==
    IF r.route = "files" THEN Resolve(Join(Root, r.path))
    ELSE Resolve(Join(Root, StripSuffix(r.path, Suffix(r.route))))

\* The request names a source (its profile suffix, if it needs one, is
\* there) and the source lies outside the dataset root.
EscapesRoot(r) ==
    /\ r.route \in {"thumbs", "display", "files"}
    /\ r.route = "files" \/ EndsWith(r.path, Suffix(r.route))
    /\ ~IsPrefix(Root.segs, RecoveredSource(r).segs)

\* C3: a request to /thumbs/, /display/ or /files/ whose source path is
\* canonically outside the dataset root is answered 403 and streams
\* nothing, and no response at all streams one of the files that lie
\* outside the root.
C3_EscapeIsForbidden ==
    \A h \in Handlers :
        /\ hs[h].pc = "done" /\ EscapesRoot(hs[h].req)
            => hs[h].resp.status = 403 /\ hs[h].resp.kind = "error"
        /\ hs[h].resp.kind = "file"
            => hs[h].resp.file \notin {f \in StaticFiles : ~IsPrefix(Root.segs, f)}

\* C3 witness: a derivative request through the symbolic link and a file
\* request through '..' have both been refused.
C3_Witness ==
    \E h, g \in Handlers :
        /\ hs[h].pc = "done" /\ hs[h].req.route = "thumbs"
        /\ hs[h].req.path = AppendSuffix(Rel(<< <<"link", "png">> >>), THUMB_SUFFIX)
        /\ hs[h].resp.status = 403
        /\ hs[g].pc = "done" /\ hs[g].req.route = "files"
        /\ hs[g].req.path = Rel(<< DotDot, <<"secret", "png">> >>)
        /\ hs[g].resp.status = 403

\* C4: no response streams a derivative whose bytes are not all there, under
\* any interleaving of the requests and the prebuild pass for one target.
C4_NoPartialFileServed ==
    \A h \in Handlers : hs[h].resp.kind = "file" => hs[h].resp.content # "partial"

\* The record the index loop has just worked on is malformed: a manifest
\* line that is no JSON or no JSON object, a side-car alike.
LastRecordMalformed ==
    /\ bg.pc \in {"manifest", "scan", "crashed"}
    /\ bg.idx >= 1
    /\ IF index_path = "manifest"
       THEN manifest[bg.idx].kind \in {"garbage", "nondict"}
       ELSE /\ Resolve(AppendSuffix(Abs(bg.listing[bg.idx]), <<"json">>)).segs = SidecarB
            /\ sidecar \in {"unparseable", "nondict"}

\* C5: a malformed record never ends the build: the thread is still running
\* after it, and in a scan the item of the affected side-car has four empty
\* tag slots.
C5_BadRecordNeverAborts ==
    LastRecordMalformed
        => /\ bg.pc # "crashed"
           /\ index_path = "None"
                => /\ bg.items # <<>>
                   /\ bg.items[Len(bg.items)].name = NameOf(Abs(bg.listing[bg.idx]))
                   /\ bg.items[Len(bg.items)].tags = EmptyTags

\* C6 (second half): in scan mode, once ready is true, scanned is the number
\* of items of the published index.
C6_ScannedIsItemCount ==
    index_path = "None" /\ store.ready => store.scanned = Len(store.items)

\* C6 (first half): scanned never decreases.
C6_ScannedNonDecreasing == [][store'.scanned >= store.scanned]_vars

\* The row's image resolves to an existing file inside the root.
RowImageOk(row) ==
    /\ row.kind = "dict"
    /\ LET img_path == Join(Root, RowGet(row, "image_path", Rel(<<>>)))
       IN  /\ safe_relative(Root, img_path).ok
           /\ IsFileLoc(Resolve(img_path).segs)

\* The row has no caption_path, or one that leads to no readable file.
RowCaptionUnreadable(row) ==
    \/ "caption_path" \notin row.has
    \/ ~IsFileLoc(Resolve(Join(Root, row.caption_path)).segs)

\* C7: a manifest row with a good image and no readable caption yields an
\* item with an empty caption, and the build goes on.
C7_RowWithoutCaptionIsEmitted ==
    /\ index_path = "manifest"
    /\ bg.pc \in {"manifest", "crashed"}
    /\ bg.idx >= 1
    /\ RowImageOk(manifest[bg.idx])
    /\ RowCaptionUnreadable(manifest[bg.idx])
    => /\ bg.pc # "crashed"
       /\ bg.items # <<>>
       /\ bg.items[Len(bg.items)].name = NameOf(Join(Root, manifest[bg.idx].image_path))
       /\ bg.items[Len(bg.items)].caption = <<>>

\* A finished derivative request with the right suffix for a source that is
\* an existing file inside the root.
GoodDerivativeDone(h) ==
    /\ hs[h].pc = "done"
    /\ hs[h].req.route \in {"thumbs", "display"}
    /\ EndsWith(hs[h].req.path, Suffix(hs[h].req.route))
    /\ IsPrefix(Root.segs, RecoveredSource(hs[h].req).segs)
    /\ IsFileLoc(RecoveredSource(hs[h].req).segs)

\* Where the derivative of a request is cached.
TargetOf(r) == Resolve(CachePath(r.route, StripSuffix(r.path, Suffix(r.route)))).segs

\* Nothing has written to the cache: no thread is past the tests of
\* build_resized, and the disk holds what it held at the start.
NoCacheWrite ==
    /\ \A t \in Threads : call[t].pc \notin {"encode", "save"}
    /\ cache \in {NoCache, OldThumb}

\* C8 as claimed: without Pillow, every such request is answered 200 with
\* the bytes of the original file, and no cache file is created.
C8_FallbackToRaw ==
    ~PIL_AVAILABLE
        => /\ NoCacheWrite
           /\ \A h \in Handlers :
                GoodDerivativeDone(h)
                    => /\ hs[h].resp.status = 200
                       /\ hs[h].resp.file = RecoveredSource(hs[h].req).segs

\* C8 as amended: without Pillow, every such request is answered 200, with
\* the cache file when one is already on disk and with the original file
\* otherwise, and no cache file is created.
C8_FallbackToRawOrOldCache ==
    ~PIL_AVAILABLE
        => /\ NoCacheWrite
           /\ \A h \in Handlers :
                GoodDerivativeDone(h)
                    => /\ hs[h].resp.status = 200
                       /\ hs[h].resp.kind = "file"
                       /\ hs[h].resp.file =
                            IF CacheState(TargetOf(hs[h].req)) # "absent"
                            THEN TargetOf(hs[h].req)
                            ELSE RecoveredSource(hs[h].req).segs

\* C8 witness: without Pillow, a thumbnail request for b.png has been
\* answered 200 with b.png itself.
C8_Witness ==
    /\ ~PIL_AVAILABLE
    /\ \E h \in Handlers :
        /\ GoodDerivativeDone(h)
        /\ hs[h].req.route = "thumbs"
        /\ hs[h].resp.status = 200
        /\ hs[h].resp.file = ImgB

\* C9: with Pillow, a call of build_resized that finds its target on disk
\* returns False at once: it decodes and encodes nothing and leaves every
\* cache file as it is.
C9_SecondCallIsCacheHit ==
    [][\A t \in Threads :
          PIL_AVAILABLE /\ call[t].pc = "check" /\ Exists(call[t].target)
              /\ call'[t] # call[t]
          => call'[t].pc = "ret" /\ ~call'[t].result /\ cache' = cache]_vars

\* C9 witness: the display derivative of b.png, which no earlier run left,
\* has been created by one call, and a later call for it has returned False.
C9_Witness ==
    /\ PIL_AVAILABLE
    /\ cache[DisplayLoc(RelB)] = "complete"
    /\ \E t \in Threads :
        /\ call[t].pc = "ret" /\ ~call[t].result
        /\ Resolve(call[t].target).segs = DisplayLoc(RelB)

\* C10: every item of the published index refers to an existing regular file
\* inside the dataset root.
C10_ItemsAreFilesInRoot ==
    store.ready
        => \A i \in 1..Len(store.items) :
             LET loc == Resolve(Join(Root, store.items[i].image_url.path)).segs
             IN  IsPrefix(Root.segs, loc) /\ IsFileLoc(loc)

\* The items the loop of this build emits, in the order of its input.
Emitted ==
    IF index_path = "manifest"
    THEN Collect([i \in 1..Len(manifest) |-> ManifestOutcome(manifest[i])])
    ELSE Collect([i \in 1..Len(bg.listing) |-> ScanOutcome(bg.listing[i])])

\* The items of a list whose lower-cased name is key, in the list's order.
WithKey(items, key) == SelectSeq(items, LAMBDA it : NameKey(it.name) = key)

\* C11: the published index is in case-insensitive name order, and the
\* items of one lower-cased name are the items the input yields under that
\* name, in the order of the input; the index is therefore a function of the
\* input alone, and a second build of the same input gives the same list.
C11_SortedAndStable ==
    store.ready
        => LET emitted == Emitted
           IN  /\ IsSortedByName(store.items)
               /\ Len(store.items) = Len(emitted)
               /\ \A key \in {NameKey(emitted[i].name) : i \in 1..Len(emitted)} :
                    WithKey(store.items, key) = WithKey(emitted, key)

\* C11 witness: a manifest has yielded two different items of one name, and
\* the index is published.
C11_Witness ==
    /\ store.ready /\ index_path = "manifest"
    /\ Len(store.items) = 2
    /\ store.items[1] # store.items[2]
    /\ NameKey(store.items[1].name) = NameKey(store.items[2].name)

\* The background thread is inside prebuild_cache.
InPrebuild == bg.pc \in {"prebuild", "prebuild_thumb", "prebuild_display"}

\* The index build has left nothing yet: no progress report, no item, no
\* publication.
NothingIndexed ==
    /\ store = [items |-> <<>>, ready |-> FALSE, scanned |-> 0]
    /\ bg.items = <<>> /\ bg.idx = 0

\* C12: the one background thread starts once; while it is in the prebuild
\* pass the index build has reported, produced and published nothing and the
\* store is not written; build_resized runs on that thread in the prebuild
\* pass only; and when a prebuild was asked for (and Pillow is there to do
\* it), load_items is entered from the end of the pass, every directory
\* entry done, and from nowhere else.
C12_PrebuildPrecedesIndexing ==
    [][/\ bg.pc # "start" => bg'.pc # "start"
       /\ InPrebuild => NothingIndexed /\ store' = store /\ bg'.items = <<>>
       /\ call'["bg"] # call["bg"] \/ cache' # cache => InPrebuild
       /\ bg'.pc = "load" /\ bg.pc # "load" /\ prebuild /\ PIL_AVAILABLE
            => bg.pc = "prebuild" /\ bg.pos = Len(bg.listing) /\ bg.total >= 1
       /\ bg.pc \notin {"start", "prebuild", "prebuild_thumb", "prebuild_display"}
            => ~(InPrebuild)']_vars

\* C12 witness: a prebuild pass has created files, and the index built after
\* it is published.
C12_Witness ==
    /\ prebuild /\ PIL_AVAILABLE
    /\ bg.built >= 1 /\ bg.total >= 1
    /\ store.ready /\ Len(store.items) >= 1

\* Candidate paths the sandbox is asked about: what the request routes and
\* the manifest loop join to the root, the entries of the scan, the root
\* itself, and traversals that stay inside, leave and come back, or end in a
\* sibling of the root.
SandboxCandidates ==
    {Join(Root, p) : p \in SourceSpellings}
    \cup {Join(Root, row.image_path) : row \in RowKinds}
    \cup {Abs(DatasetListing[i]) : i \in 1..Len(DatasetListing)}
    \cup {Root,
          Join(Root, Rel(<< <<"album", "png">>, DotDot, <<"b", "png">> >>)),
          Join(Root, Rel(<< DotDot, <<"r">>, <<"b", "png">> >>)),
          Join(Root, Rel(<< DotDot, <<"r2">>, <<"b", "png">> >>)),
          Join(Root, Rel(<< DotDot >>)),
          Join(Root, Rel(<< DotDot, DotDot, DotDot, <<"d">>, <<"r">> >>)),
          Join(Root, Rel(<< <<"link", "png">>, DotDot, <<"r">>, <<"b", "png">> >>))}

\* The location is the root or lies below it: some number of its leading
\* components are the components of the root.
RootOrBelow(loc) == \E k \in 0..Len(loc) : SubSeq(loc, 1, k) = Resolve(Root).segs

\* C13: safe_relative accepts a candidate exactly when its canonical form is
\* the root or lies below it; what it returns, joined to the root, is that
\* canonical form, with no '..' left in it; and a candidate it rejects gets
\* None, never a path taken relative to something else.
C13_SandboxAcceptsIffInside ==
    \A c \in SandboxCandidates \cup {hs[h].req.path : h \in Handlers} :
        LET target == Join(Root, c)
            res == safe_relative(Root, target)
        IN  /\ res.ok <=> RootOrBelow(Resolve(target).segs)
            /\ res.ok => /\ ~res.rel.abs
                         /\ Resolve(Root).segs \o res.rel.segs = Resolve(target).segs
                         /\ \A i \in 1..Len(res.rel.segs) : res.rel.segs[i] # DotDot
            /\ ~res.ok => res = None

\* C13 witness: the sandbox has let a request for b.png through and has
\* stopped one for ../secret.png, both on /files/.
C13_Witness ==
    \E h, g \in Handlers :
        /\ hs[h].pc = "done" /\ hs[h].req.route = "files"
        /\ hs[h].req.path = RelB
        /\ safe_relative(Root, Join(Root, hs[h].req.path)).ok
        /\ hs[h].resp.status = 200
        /\ hs[g].pc = "done" /\ hs[g].req.route = "files"
        /\ hs[g].req.path = Rel(<< DotDot, <<"secret", "png">> >>)
        /\ ~safe_relative(Root, Join(Root, hs[g].req.path)).ok
        /\ hs[g].resp.status = 403

\* What the files beside an image hold, read off the dataset: b.png has the
\* caption file " a cat " and, when its side-car is a JSON object, the tag
\* strings "cat  outdoor" (general) and " bob" (artist); no other image has
\* either file.
ExpectedCaption(loc) == IF loc = ImgB THEN <<"a", " ", "cat">> ELSE <<>>

ExpectedTags(loc) ==
    IF loc = ImgB /\ sidecar = "good"
    THEN [artist |-> <<"bob">>, copyright |-> <<>>, character |-> <<>>,
          general |-> <<"cat", "outdoor">>]
    ELSE [artist |-> <<>>, copyright |-> <<>>, character |-> <<>>, general |-> <<>>]

\* C14: in scan mode every item of the published index has the trimmed text
\* of its image's .caption.txt sibling as caption ("" without one), and in
\* each tag slot the non-empty tokens, in order, of the side-car's
\* tag_string_* field (none when the field or the side-car is missing).
C14_ScanCaptionAndTags ==
    store.ready /\ index_path = "None"
        => \A i \in 1..Len(store.items) :
             LET loc == Resolve(Join(Root, store.items[i].image_url.path)).segs
             IN  /\ store.items[i].caption = ExpectedCaption(loc)
                 /\ store.items[i].tags = ExpectedTags(loc)
                 /\ \A slot \in DOMAIN store.items[i].tags :
                      \A k \in 1..Len(store.items[i].tags[slot]) :
                          store.items[i].tags[slot][k] \notin {" ", ""}

\* C14 witness: a scan has published b.png with its caption and the tags of
\* its side-car, next to an image that has neither file.
C14_Witness ==
    /\ store.ready /\ index_path = "None" /\ sidecar = "good"
    /\ \E i, j \in 1..Len(store.items) :
        /\ store.items[i].name = <<"b", "png">>
        /\ store.items[i].caption = <<"a", " ", "cat">>
        /\ store.items[i].tags.general = <<"cat", "outdoor">>
        /\ store.items[i].tags.artist = <<"bob">>
        /\ store.items[j].name = <<"A", "JPG">>
        /\ store.items[j].caption = <<>>
        /\ store.items[j].tags = EmptyTags

\* The texts of the files that lie outside the dataset root.
OutsideTexts == {Strip(FileText(f)) : f \in {g \in StaticFiles : ~RootOrBelow(g)}} \ {<<>>}

\* C15: no item of a manifest-mode index has the text of a file from outside
\* the dataset root as its caption.
C15_NoCaptionFromOutside ==
    index_path = "manifest"
        => \A i \in 1..Len(store.items) : store.items[i].caption \notin OutsideTexts

\* C16: a step that changes the store is a step of the background thread
\* and of no handler, and once ready is true the store keeps its three
\* fields as they are.
C16_SingleWriterFrozenWhenReady ==
    [][/\ store' # store => bg' # bg /\ hs' = hs
       /\ hs' # hs => store' = store
       /\ store.ready => store' = store]_vars

\* C16 witness: the index is published after a progress report, and a
\* handler that came after the publication has answered with it.
C16_Witness ==
    /\ store.ready /\ store.scanned > 0 /\ Len(store.items) >= 1
    /\ bg.pc = "done"
    /\ \E h \in Handlers :
        /\ hs[h].resp.kind = "api" /\ hs[h].resp.ready
        /\ hs[h].resp.items = store.items /\ hs[h].resp.scanned = store.scanned

\* C17: while a loop of the index build runs, the last count reported is the
\* last multiple of the cadence that the number of records processed has
\* reached, skipped records counted like the others.
C17_EveryMultipleIsReported ==
    bg.pc \in {"manifest", "scan"}
        => store.scanned = bg.idx - (bg.idx % ProgressEvery)

\* C17 (second half): a progress report carries a count greater than the
\* one before.
C17_ReportsIncrease ==
    [][store'.scanned # store.scanned => store'.scanned > store.scanned]_vars

\* The cache files that are on disk, whole.
CompleteFiles == {l \in CacheLocs : CacheState(l) = "complete"}

\* What the pass has counted as created, a call that has returned True and
\* is not added to built yet included.
CountedCreated ==
    bg.built + (IF call["bg"].pc = "ret" /\ call["bg"].result THEN 1 ELSE 0)

\* The entries of the pass's listing that prebuild_cache takes for images
\* and that Pillow decodes.
PrebuildSources ==
    {bg.listing[i] : i \in {j \in 1..Len(bg.listing) :
        /\ Lower(SuffixOf(bg.listing[j][Len(bg.listing[j])])) \in IMAGE_EXTS
        /\ IsPrefix(Root.segs, Resolve(Abs(bg.listing[j])).segs)
        /\ Decodable(Abs(bg.listing[j]))}}

C19_PrebuildReportsProgress ==
    prebuild /\ PIL_AVAILABLE /\ bg.pc = "load" /\ bg.total >= ProgressEvery
        => store.scanned > 0

\* The cache directory of a route: root/.thumbs or root/.display.
CacheDir(route) ==
    Root.segs \o << IF route = "thumbs" THEN <<"", "thumbs">> ELSE <<"", "display">> >>

\* C20: no cache file is ever created outside the dataset root, and a cache
\* file streamed in answer to a derivative request lies in the cache
\* directory of the request's profile.
C20_CacheStaysInCacheDir ==
    /\ \A l \in CacheLocs : CacheState(l) # "absent" => IsPrefix(Root.segs, l)
    /\ \A h \in Handlers :
        /\ hs[h].pc = "done" /\ hs[h].req.route \in {"thumbs", "display"}
        /\ hs[h].resp.kind = "file" /\ hs[h].resp.file \in CacheLocs
        => IsPrefix(CacheDir(hs[h].req.route), hs[h].resp.file)

\* The location lies in one of the two cache directories of the root.
InCacheDirs(loc) ==
    IsPrefix(CacheDir("thumbs"), loc) \/ IsPrefix(CacheDir("display"), loc)

\* C21: no file of the cache directories is an item of a scan-mode index,
\* and none is a source of the prebuild pass.
C21_CacheFilesAreNotImages ==
    /\ index_path = "None"
        => \A i \in 1..Len(store.items) :
             ~InCacheDirs(Resolve(Join(Root, store.items[i].image_url.path)).segs)
    /\ call["bg"].pc # "none" => ~InCacheDirs(Resolve(call["bg"].src).segs)

====
